---- MODULE Spec2Model ----
(***************************************************************************)
(* uloady (src/src/uloady.ts): the host registry (FileHost.derivedClass),  *)
(* host selection (FileHost.service), the generic upload                   *)
(* (FileHost.upload), the per-file loop of main and getHumanFileSize.      *)
(*                                                                         *)
(* Byte counts are JavaScript numbers in the source.  Here a byte count is *)
(* the sequence of its base-1024 digits, least significant first, without  *)
(* leading zero digits (0 is <<>>): the host limits reach 50 GiB and       *)
(* getHumanFileSize is exercised up to 1024^7, both exact in this form.    *)
(*                                                                         *)
(* A string handed to -s is a sequence of atoms: "," the separator, " " a  *)
(* blank, and words (runs of other characters).  A token between two       *)
(* separators is the sequence of its atoms; it is the text of a single     *)
(* word exactly when it has length 1.  No concatenation of two or more     *)
(* words of the alphabet is itself a host name or the word "default".      *)
(***************************************************************************)
EXTENDS Integers, Sequences, FiniteSets

VARIABLES
  derivedClass,  \* FileHost.derivedClass: entries <<name, info>> in insertion order
  registered,    \* history: the classes handed to subClass so far, in order
  svcCall,       \* the arguments of the last FileHost.service call
  svcResult,     \* what that call returned or threw
  pc,            \* main: "idle", "loop" or "done"
  flags,         \* main: parsed options
  files,         \* main: positionals, each a record describing the file
  idx,           \* main: number of files the loop has finished
  ret,           \* main: the exit status so far
  stdout,        \* lines written with console.log
  stderr,        \* lines written with console.error
  fetched,       \* requests handed to fetch, in order
  outcomes,      \* history: per finished file, how its iteration ended
  hfsIn,         \* the argument of the last getHumanFileSize call
  hfsOut         \* its result

vars == <<derivedClass, registered, svcCall, svcResult, pc, flags, files, idx,
          ret, stdout, stderr, fetched, outcomes, hfsIn, hfsOut>>

-----------------------------------------------------------------------------
(* Bounds of the model *)

\* longest -s string, in atoms, that a direct FileHost.service call is given
MaxLen == 4
\* most classes decorated in the registration specification
MaxRegs == 3
\* most positional file arguments of one run of main
MaxFiles == 2
\* most base-1024 digits of a getHumanFileSize argument
MaxDigits == 7

-----------------------------------------------------------------------------
(* Numbers *)

\* the divisor and threshold of getHumanFileSize; also the digit base
Base == 1024

Zero == <<>>

\* k as a byte count, for 0 <= k < Base
Num(k) == IF k = 0 THEN <<>> ELSE <<k>>

\* x * 1024
Times1024(x) == IF x = <<>> THEN <<>> ELSE <<0>> \o x

\* x + 1
RECURSIVE Inc(_)
Inc(x) ==
  IF x = <<>> THEN <<1>>
  ELSE IF Head(x) + 1 < Base THEN <<Head(x) + 1>> \o Tail(x)
  ELSE <<0>> \o Inc(Tail(x))

\* a > b, on digit sequences without leading zeros
Greater(a, b) ==
  \/ Len(a) > Len(b)
  \/ /\ Len(a) = Len(b)
     /\ \E i \in 1..Len(a) :
          /\ a[i] > b[i]
          /\ \A j \in (i + 1)..Len(a) : a[j] = b[j]

\* Math.max(a, b)
MathMax(a, b) == IF Greater(b, a) THEN b ELSE a

-----------------------------------------------------------------------------
(* getHumanFileSize *)

suffixes == <<"B", "KiB", "MiB", "GiB", "TiB", "PiB">>

\* The running value of fileSize: int holds the digits of its integer part,
\* frac the digits after the point, most significant first.
AsValue(n) == [int |-> n, frac |-> <<>>]

\* fileSize < 1024
Below1024(v) == Len(v.int) <= 1

\* fileSize /= 1024
Div1024(v) ==
  IF v.int = <<>> THEN [int |-> <<>>, frac |-> <<0>> \o v.frac]
  ELSE [int |-> Tail(v.int), frac |-> <<Head(v.int)>> \o v.frac]

\* for (suffix of suffixes) { if (fileSize < 1024) break; fileSize /= 1024; }
\* i is the position of the next element the iterator yields; when the
\* iterator is exhausted suffix keeps the last element it was assigned.
RECURSIVE HumanLoop(_, _)
HumanLoop(v, i) ==
  IF i > Len(suffixes) THEN [value |-> v, suffix |-> suffixes[Len(suffixes)]]
  ELSE IF Below1024(v) THEN [value |-> v, suffix |-> suffixes[i]]
  ELSE HumanLoop(Div1024(v), i + 1)

\* The result pairs the number that toPrecision(3) renders with the suffix
\* appended to it.
getHumanFileSize(fileSize) == HumanLoop(AsValue(fileSize), 1)

-----------------------------------------------------------------------------
(* Map<string, FileHostInfo>: a sequence of <<key, value>> in insertion order *)

EmptyMap == <<>>

MapHas(m, k) == \E i \in 1..Len(m) : m[i][1] = k

MapIndex(m, k) == CHOOSE i \in 1..Len(m) : m[i][1] = k

MapGet(m, k) == m[MapIndex(m, k)][2]

\* Map.prototype.set: an existing key keeps its place and takes the new value
MapSet(m, k, v) ==
  IF MapHas(m, k) THEN [m EXCEPT ![MapIndex(m, k)] = <<k, v>>]
  ELSE Append(m, <<k, v>>)

\* Map.prototype.delete
MapDelete(m, k) ==
  IF MapHas(m, k)
  THEN SubSeq(m, 1, MapIndex(m, k) - 1) \o SubSeq(m, MapIndex(m, k) + 1, Len(m))
  ELSE m

-----------------------------------------------------------------------------
(* The subclasses of FileHost, as new constructor() shows them *)

KiB(k) == Times1024(Num(k))
MiB(k) == Times1024(KiB(k))
GiB(k) == Times1024(MiB(k))

\* formValues: the keys in declaration order, each with the kind of its value
\* ("data" for FileHost.dataToken, "string" for a literal)
Catbox ==
  [name |-> "Catbox", maxFileSize |-> MiB(200), default |-> TRUE,
   formValues |-> <<"string", "data">>]
X0at ==
  [name |-> "X0at", maxFileSize |-> MiB(512), default |-> TRUE,
   formValues |-> <<"data">>]
OxOst ==
  [name |-> "OxOst", maxFileSize |-> MiB(512), default |-> TRUE,
   formValues |-> <<"data">>]
TmpFiles ==
  [name |-> "TmpFiles", maxFileSize |-> MiB(100), default |-> FALSE,
   formValues |-> <<"data">>]
UploadPie ==
  [name |-> "UploadPie", maxFileSize |-> MiB(3), default |-> FALSE,
   formValues |-> <<"string", "string", "data">>]
PutNu ==
  [name |-> "PutNu", maxFileSize |-> GiB(50), default |-> TRUE,
   formValues |-> <<"data">>]
GoFileIO ==
  [name |-> "GoFileIO", maxFileSize |-> GiB(50), default |-> FALSE,
   formValues |-> <<"data">>]
Uguu ==
  [name |-> "Uguu", maxFileSize |-> MiB(128), default |-> TRUE,
   formValues |-> <<"data">>]
FileDitch ==
  [name |-> "FileDitch", maxFileSize |-> GiB(10), default |-> FALSE,
   formValues |-> <<"data">>]
PomfLain ==
  [name |-> "PomfLain", maxFileSize |-> GiB(1), default |-> TRUE,
   formValues |-> <<"data">>]
LewdPics ==
  [name |-> "LewdPics", maxFileSize |-> MiB(25), default |-> FALSE,
   formValues |-> <<"string", "string", "data">>]
QuestionableLink ==
  [name |-> "QuestionableLink", maxFileSize |-> MiB(95), default |-> FALSE,
   formValues |-> <<"data", "string">>]
TempSh ==
  [name |-> "TempSh", maxFileSize |-> GiB(4), default |-> FALSE,
   formValues |-> <<"data">>]
Blicky ==
  [name |-> "Blicky", maxFileSize |-> MiB(100), default |-> FALSE,
   formValues |-> <<"data">>]

\* the decorated classes in the order the module body declares them
Hosts ==
  <<Catbox, X0at, OxOst, TmpFiles, UploadPie, PutNu, GoFileIO, Uguu, FileDitch,
    PomfLain, LewdPics, QuestionableLink, TempSh, Blicky>>

\* A further class the decorator can be handed: one whose name differs from
\* Catbox only in case.
CatBox ==
  [name |-> "CatBox", maxFileSize |-> MiB(1), default |-> FALSE,
   formValues |-> <<"data">>]

Classes == {Hosts[i] : i \in 1..Len(Hosts)} \cup {CatBox}

ClassOf(constructor) == CHOOSE c \in Classes : c.name = constructor

\* String.prototype.toLowerCase on the class names above
toLowerCase(name) ==
  CASE name = "Catbox" -> "catbox"
    [] name = "CatBox" -> "catbox"
    [] name = "X0at" -> "x0at"
    [] name = "OxOst" -> "oxost"
    [] name = "TmpFiles" -> "tmpfiles"
    [] name = "UploadPie" -> "uploadpie"
    [] name = "PutNu" -> "putnu"
    [] name = "GoFileIO" -> "gofileio"
    [] name = "Uguu" -> "uguu"
    [] name = "FileDitch" -> "fileditch"
    [] name = "PomfLain" -> "pomflain"
    [] name = "LewdPics" -> "lewdpics"
    [] name = "QuestionableLink" -> "questionablelink"
    [] name = "TempSh" -> "tempsh"
    [] name = "Blicky" -> "blicky"

\* the key subClass files a class under
RegistryName(cls) ==
  IF cls.name = "OxOst" THEN "0x0st" ELSE toLowerCase(cls.name)

\* FileHost.subClass: the registry after the decorator ran on cls
subClass(m, cls) ==
  LET name == RegistryName(cls)
      info == [constructor |-> cls.name,
               maxFileSize |-> cls.maxFileSize,
               default |-> cls.default]
  IN MapSet(m, name, info)

\* the registry once the module body has run: every decorator, in order
RECURSIVE Decorated(_, _)
Decorated(m, i) ==
  IF i > Len(Hosts) THEN m ELSE Decorated(subClass(m, Hosts[i]), i + 1)

StartupRegistry == Decorated(EmptyMap, 1)

-----------------------------------------------------------------------------
(* FileHost.service *)

Undefined == [undef |-> TRUE, str |-> <<>>]
Str(s) == [undef |-> FALSE, str |-> s]

HasComma(s) == \E i \in 1..Len(s) : s[i] = ","
FirstComma(s) == CHOOSE i \in 1..Len(s) : s[i] = "," /\ \A j \in 1..(i - 1) : s[j] # ","

\* String.prototype.split(',')
RECURSIVE Split(_)
Split(s) ==
  IF ~HasComma(s) THEN <<s>>
  ELSE <<SubSeq(s, 1, FirstComma(s) - 1)>>
         \o Split(SubSeq(s, FirstComma(s) + 1, Len(s)))

\* String.prototype.trim
RECURSIVE Trim(_)
Trim(t) ==
  IF t = <<>> THEN t
  ELSE IF Head(t) = " " THEN Trim(Tail(t))
  ELSE IF t[Len(t)] = " " THEN Trim(SubSeq(t, 1, Len(t) - 1))
  ELSE t

\* PopTrailingEmpty without the pop
PopTrailingEmptyNever(w) == w

\* if (wantedServices[wantedServices.length-1] === '') wantedServices.pop()
PopTrailingEmpty(w) ==
  IF Len(w) > 0 /\ w[Len(w)] = <<>> THEN SubSeq(w, 1, Len(w) - 1) ELSE w

\* serviceNames.split(',').map(trim), then the optional last comma
WantedServices(s) ==
  LET parts == Split(s)
  IN PopTrailingEmpty([i \in 1..Len(parts) |-> Trim(parts[i])])

\* IsDefaultRequest comparing with the capitalised word
IsDefaultRequestCapital(w) == Len(w) = 1 /\ w[1] = <<"Default">>

\* wantedServices.length === 1 && wantedServices[0] === 'default'
IsDefaultRequest(w) == Len(w) = 1 /\ w[1] = <<"default">>

\* this.derivedClass.get(name) !== undefined, for a token
Known(m, tok) == Len(tok) = 1 /\ MapHas(m, tok[1])

\* WantedLoop with an unknown name skipped instead of thrown
RECURSIVE WantedLoopSkipping(_, _, _, _)
WantedLoopSkipping(m, w, i, services) ==
  IF i > Len(w) THEN [threw |-> FALSE, services |-> services]
  ELSE IF ~Known(m, w[i]) THEN WantedLoopSkipping(m, w, i + 1, services)
  ELSE WantedLoopSkipping(m, w, i + 1,
         MapSet(services, w[i][1], MapGet(m, w[i][1])))

\* for (const name of wantedServices) { get; throw if undefined; set }
RECURSIVE WantedLoop(_, _, _, _)
WantedLoop(m, w, i, services) ==
  IF i > Len(w) THEN [threw |-> FALSE, services |-> services]
  ELSE IF ~Known(m, w[i]) THEN [threw |-> TRUE, name |-> w[i]]
  ELSE WantedLoop(m, w, i + 1, MapSet(services, w[i][1], MapGet(m, w[i][1])))

\* for (const [name, info] of iterated) if (info.default) services.set(name, info)
RECURSIVE DefaultLoop(_, _, _)
DefaultLoop(iterated, i, services) ==
  IF i > Len(iterated) THEN services
  ELSE DefaultLoop(iterated, i + 1,
         IF iterated[i][2].default
         THEN MapSet(services, iterated[i][1], iterated[i][2])
         ELSE services)

\* TooLargeFor with the comparison turned round
TooLargeForReversed(fileSize, info) == Greater(info.maxFileSize, fileSize)

\* fileSize > info.maxFileSize
TooLargeFor(fileSize, info) == Greater(fileSize, info.maxFileSize)

\* One pass of the size loop over the entries the iterator yields.  Only the
\* entry being visited is deleted, so the live iterator visits every entry of
\* the map as it stood when the loop began.
RECURSIVE SizeLoop(_, _, _, _, _)
SizeLoop(entries, i, fileSize, services, maxFileSize) ==
  IF i > Len(entries) THEN [services |-> services, maxFileSize |-> maxFileSize]
  ELSE SizeLoop(entries, i + 1, fileSize,
         IF TooLargeFor(fileSize, entries[i][2])
         THEN MapDelete(services, entries[i][1])
         ELSE services,
         MathMax(maxFileSize, entries[i][2].maxFileSize))

Returned(constructor) == [kind |-> "returned", constructor |-> constructor]
UnknownService(name) == [kind |-> "unknown service", name |-> name]
FileTooLarge(fileName, fileSize, maxFileSize) ==
  [kind |-> "file too large", fileName |-> fileName,
   fileSize |-> getHumanFileSize(fileSize),
   maximumSize |-> getHumanFileSize(maxFileSize)]

\* lines 130-152: the size loop, the empty check, the random pick
Choose(services0, fileName, fileSize) ==
  LET r == SizeLoop(services0, 1, fileSize, services0, Zero)
  IN IF Len(r.services) = 0
     THEN {FileTooLarge(fileName, fileSize, r.maxFileSize)}
     ELSE {Returned(r.services[n + 1][2].constructor) :
             n \in 0..(Len(r.services) - 1)}

\* FileHost.service: every result the call can have, one per value of
\* crypto.randomInt.  The loop for an undefined serviceNames iterates the
\* local map services, which is empty at that point (line 107).
RECURSIVE service(_, _, _, _)
service(m, serviceNames, fileName, fileSize) ==
  LET services == EmptyMap
  IN IF serviceNames.undef
     THEN Choose(DefaultLoop(services, 1, services), fileName, fileSize)
     ELSE LET w == WantedServices(serviceNames.str)
          IN IF IsDefaultRequest(w)
             THEN service(m, Undefined, fileName, fileSize)
             ELSE LET r == WantedLoop(m, w, 1, services)
                  IN IF r.threw THEN {UnknownService(r.name)}
                     ELSE Choose(r.services, fileName, fileSize)

\* The two Map objects a call of FileHost.service can reach: the one the
\* static field derivedClass refers to, and the one new Map() makes.
Heap(m) == [registry |-> m, fresh |-> EmptyMap]

\* services naming the registry's own Map instead of a new one
ServicesRefAliased == "registry"

\* let services = new Map(): the object the local variable refers to
ServicesRef == "fresh"

\* The Map objects after a call of FileHost.service: every set and delete of
\* the function is applied to the object services refers to, every get to the
\* registry.  A throw for an unknown name leaves what was set before it.
RECURSIVE ServiceHeap(_, _, _)
ServiceHeap(m, serviceNames, fileSize) ==
  LET h == Heap(m)
      sized(h1) ==
        [h1 EXCEPT ![ServicesRef] =
           SizeLoop(h1[ServicesRef], 1, fileSize, h1[ServicesRef], Zero).services]
  IN IF serviceNames.undef
     THEN sized([h EXCEPT ![ServicesRef] =
                   DefaultLoop(h[ServicesRef], 1, h[ServicesRef])])
     ELSE LET w == WantedServices(serviceNames.str)
          IN IF IsDefaultRequest(w)
             THEN ServiceHeap(m, Undefined, fileSize)
             ELSE LET r == WantedLoop(h.registry, w, 1, h[ServicesRef])
                  IN IF r.threw THEN h
                     ELSE sized([h EXCEPT ![ServicesRef] = r.services])

\* FileHost.derivedClass after a call of FileHost.service
RegistryAfterService(m, serviceNames, fileSize) ==
  ServiceHeap(m, serviceNames, fileSize).registry

-----------------------------------------------------------------------------
(* Inputs *)

\* the atoms -s strings are built from: two registered names (one default,
\* one not), the word "default", an unregistered word, separator and blank
Atoms == {"catbox", "uploadpie", "default", "nosuch", ",", " "}

StringsUpTo(n) == UNION {[1..k -> Atoms] : k \in 0..n}

\* file sizes around the limits of the hosts the atoms name and of the
\* largest host
FileSizes ==
  {Zero, MiB(3), Inc(MiB(3)), MiB(200), Inc(MiB(200)), Inc(GiB(50))}

-----------------------------------------------------------------------------
(* State *)

NoCall == [made |-> FALSE, serviceNames |-> Undefined, fileName |-> "",
           fileSize |-> Zero]
NoResult == [kind |-> "none"]
NoFlags == [help |-> FALSE, dryRun |-> FALSE, service |-> Undefined]
NoHumanCall == [called |-> FALSE, fileSize |-> Zero]
NoHuman == [value |-> AsValue(Zero), suffix |-> ""]

\* everything but the registry, before any call
Idle ==
  /\ svcCall = NoCall
  /\ svcResult = NoResult
  /\ pc = "idle"
  /\ flags = NoFlags
  /\ files = <<>>
  /\ idx = 0
  /\ ret = 0
  /\ stdout = <<>>
  /\ stderr = <<>>
  /\ fetched = <<>>
  /\ outcomes = <<>>
  /\ hfsIn = NoHumanCall
  /\ hfsOut = NoHuman

\* the module body has run: every class is decorated
Loaded ==
  /\ derivedClass = StartupRegistry
  /\ registered = Hosts

mainVars == <<pc, flags, files, idx, ret, stdout, stderr, fetched, outcomes>>
humanVars == <<hfsIn, hfsOut>>
svcVars == <<svcCall, svcResult>>
regVars == <<derivedClass, registered>>

-----------------------------------------------------------------------------
(* Direct calls of FileHost.service on the loaded registry *)

\* FileHost.service called with these arguments
Call(serviceNames, fileSize) ==
  \E r \in service(derivedClass, serviceNames, "f", fileSize) :
    /\ svcCall' = [made |-> TRUE, serviceNames |-> serviceNames,
                   fileName |-> "f", fileSize |-> fileSize]
    /\ svcResult' = r
    /\ derivedClass' = RegistryAfterService(derivedClass, serviceNames, fileSize)
    /\ UNCHANGED <<registered, mainVars, humanVars>>

\* FileHost.service(undefined, ...).  One call is followed per behaviour: a
\* call reads the registry and its arguments only.
ServiceUndefined ==
  /\ ~svcCall.made
  /\ \E fileSize \in FileSizes : Call(Undefined, fileSize)

\* FileHost.service("...", ...)
ServiceNamed ==
  /\ ~svcCall.made
  /\ \E s \in StringsUpTo(MaxLen), fileSize \in FileSizes :
       Call(Str(s), fileSize)

ServiceInit == Loaded /\ Idle
ServiceNext == ServiceUndefined \/ ServiceNamed
ServiceSpec == ServiceInit /\ [][ServiceNext]_vars

-----------------------------------------------------------------------------
(* Properties of FileHost.service *)

Infos(m) == {m[i][2] : i \in 1..Len(m)}

DefaultInfos(m) == {info \in Infos(m) : info.default}

\* the descriptors the tokens of w name
NamedInfos(m, w) ==
  {MapGet(m, w[i][1]) : i \in {j \in 1..Len(w) : Known(m, w[j])}}

\* s is the word "default" alone: one atom "default", around it only blanks,
\* and after it at most one comma
DefaultAlone(s) ==
  LET words == {i \in 1..Len(s) : s[i] = "default"}
      commas == {i \in 1..Len(s) : s[i] = ","}
  IN /\ Cardinality(words) = 1
     /\ Cardinality(commas) <= 1
     /\ \A i \in words, j \in commas : i < j
     /\ \A i \in 1..Len(s) : s[i] \in {"default", " ", ","}

\* the candidate set of a call: the default-eligible hosts when no names were
\* requested (or "default" alone), else the hosts requested
CandidateInfos(m, serviceNames) ==
  IF serviceNames.undef \/ DefaultAlone(serviceNames.str)
  THEN DefaultInfos(m)
  ELSE NamedInfos(m, WantedServices(serviceNames.str))

\* the largest maxFileSize in a set of descriptors, 0 for none
Largest(infos) ==
  IF infos = {} THEN Zero
  ELSE (CHOOSE a \in infos :
          \A b \in infos : ~Greater(b.maxFileSize, a.maxFileSize)).maxFileSize

Fits(fileSize, info) == ~Greater(fileSize, info.maxFileSize)

\* C1: a call without host names and with a file within the limit of every
\* default-eligible host returns a host, and that host is default-eligible.
C1_NoNamesPicksDefault ==
  (/\ svcCall.made
   /\ svcCall.serviceNames.undef
   /\ \A info \in DefaultInfos(derivedClass) : Fits(svcCall.fileSize, info))
  => /\ svcResult.kind = "returned"
     /\ \E info \in DefaultInfos(derivedClass) :
          info.constructor = svcResult.constructor

C5_ReportedMaximum ==
  (svcCall.made /\ svcResult.kind = "file too large")
  => svcResult.maximumSize =
       getHumanFileSize(
         Largest(CandidateInfos(derivedClass, svcCall.serviceNames)))

\* C6: a request with a token that is no registered name (and that is not
\* "default" alone) fails as an unknown service naming such a token, whatever
\* the file size.
C6_UnknownNameFails ==
  (/\ svcCall.made
   /\ ~svcCall.serviceNames.undef
   /\ ~DefaultAlone(svcCall.serviceNames.str)
   /\ LET w == WantedServices(svcCall.serviceNames.str)
      IN \E i \in 1..Len(w) : ~Known(derivedClass, w[i]))
  => /\ svcResult.kind = "unknown service"
     /\ LET w == WantedServices(svcCall.serviceNames.str)
        IN \E i \in 1..Len(w) :
             w[i] = svcResult.name /\ ~Known(derivedClass, w[i])

C6_Witness ==
  /\ svcCall.made
  /\ svcCall.serviceNames = Str(<<"default", ",", "catbox">>)
  /\ svcResult = UnknownService(<<"default">>)

\* C8: "default" alone is served exactly as a call without host names: the
\* two calls have the same possible results.
C8_DefaultIsNoNames ==
  (/\ svcCall.made
   /\ ~svcCall.serviceNames.undef
   /\ DefaultAlone(svcCall.serviceNames.str))
  => /\ svcResult \in service(derivedClass, Undefined, svcCall.fileName,
                              svcCall.fileSize)
     /\ service(derivedClass, svcCall.serviceNames, svcCall.fileName,
                svcCall.fileSize)
          = service(derivedClass, Undefined, svcCall.fileName,
                    svcCall.fileSize)

C8_Witness ==
  /\ svcCall.made
  /\ svcCall.serviceNames = Str(<<" ", "default", " ", ",">>)
  /\ svcResult \in service(derivedClass, Undefined, svcCall.fileName,
                           svcCall.fileSize)

\* the text after the last comma of s holds something besides blanks
EndsInName(s) ==
  LET parts == Split(s)
  IN \E i \in 1..Len(parts[Len(parts)]) : parts[Len(parts)][i] # " "

\* some token of s other than the one after the last comma is empty
EmptyTokenInside(s) ==
  LET parts == Split(s)
  IN \E i \in 1..(Len(parts) - 1) : \A j \in 1..Len(parts[i]) : parts[i][j] = " "

\* C9: one comma after the last name changes nothing: the string with it and
\* the string without it have the same possible results; an empty token
\* anywhere else is looked up and fails.
C9_TrailingComma ==
  svcCall.made /\ ~svcCall.serviceNames.undef =>
    LET s == svcCall.serviceNames.str
        results(t) == service(derivedClass, Str(t), svcCall.fileName,
                              svcCall.fileSize)
    IN /\ EndsInName(s) => results(s \o <<",">>) = results(s)
       /\ (Len(s) > 1 /\ s[Len(s)] = "," /\ EndsInName(SubSeq(s, 1, Len(s) - 1)))
            => svcResult \in results(SubSeq(s, 1, Len(s) - 1))
       /\ (EmptyTokenInside(s) /\ ~DefaultAlone(s))
            => svcResult.kind = "unknown service"

C9_Witness ==
  /\ svcCall.made
  /\ svcCall.serviceNames = Str(<<"catbox", ",", "uploadpie", ",">>)
  /\ svcCall.fileSize = MiB(3)
  /\ svcResult = Returned("UploadPie")

-----------------------------------------------------------------------------
(* The module body: the decorator applied to classes, one at a time *)

\* @FileHost.subClass on a class declaration
Decorate ==
  /\ Len(registered) < MaxRegs
  /\ \E cls \in Classes :
       /\ derivedClass' = subClass(derivedClass, cls)
       /\ registered' = Append(registered, cls)
  /\ UNCHANGED <<svcVars, mainVars, humanVars>>

RegInit == derivedClass = EmptyMap /\ registered = <<>> /\ Idle
RegNext == Decorate
RegSpec == RegInit /\ [][RegNext]_vars

\* the first class decorated under the registry name of cls
FirstUnder(name) ==
  registered[CHOOSE j \in 1..Len(registered) :
               /\ RegistryName(registered[j]) = name
               /\ \A k \in 1..(j - 1) : RegistryName(registered[k]) # name]

\* C3: a name already in the registry is not registered again: every name
\* maps to the first class decorated under it.
C3_FirstRegistrationKept ==
  \A i \in 1..Len(derivedClass) :
    derivedClass[i][2].constructor = FirstUnder(derivedClass[i][1]).name

-----------------------------------------------------------------------------
(* getHumanFileSize on its own *)

Digits == {0, 1, Base - 1}

\* byte counts of at most MaxDigits base-1024 digits
ByteCounts ==
  {n \in UNION {[1..k -> Digits] : k \in 0..MaxDigits} :
     Len(n) > 0 => n[Len(n)] # 0}

HumanFileSize ==
  /\ ~hfsIn.called
  /\ \E n \in ByteCounts :
       /\ hfsIn' = [called |-> TRUE, fileSize |-> n]
       /\ hfsOut' = getHumanFileSize(n)
  /\ UNCHANGED <<regVars, svcVars, mainVars>>

HumanInit == Loaded /\ Idle
HumanNext == HumanFileSize
HumanSpec == HumanInit /\ [][HumanNext]_vars

Units == <<"B", "KiB", "MiB", "GiB", "TiB", "PiB">>

Min(a, b) == IF a < b THEN a ELSE b

\* n / 1024^k: the digits from k+1 up before the point, the k lowest after it
Shifted(n, k) ==
  [int |-> SubSeq(n, k + 1, Len(n)),
   frac |-> [i \in 1..k |-> n[k + 1 - i]]]

\* the smallest k with n / 1024^k < 1024
SmallestUnit(n) == IF Len(n) = 0 THEN 0 ELSE Len(n) - 1

\* C10: the value reported is n / 1024^k with the k-th unit, k the smallest
\* index with n / 1024^k < 1024, or 5 when there is none up to 5.
C10_DivisionsMatchUnit ==
  hfsIn.called =>
    LET k == Min(SmallestUnit(hfsIn.fileSize), Len(Units) - 1)
    IN hfsOut = [value |-> Shifted(hfsIn.fileSize, k), suffix |-> Units[k + 1]]

-----------------------------------------------------------------------------
(* FileHost.upload and main *)

\* new service(...): the constructor's dryRun parameter defaults to false
Construct(constructor, args) ==
  [class |-> ClassOf(constructor),
   dryRun |-> IF Len(args) = 0 THEN FALSE ELSE args[1]]

\* the classes whose responseFixup throws on a body that is not the one the
\* host normally sends (JSON.parse, or slicing a missing line)
FixupThrows == {"TmpFiles", "UploadPie", "GoFileIO", "QuestionableLink"}

\* what the network does with one request: the promise of fetch rejects, or
\* resolves with response.ok false, or resolves with ok and a body
Network ==
  {[answer |-> "rejects", body |-> ""],
   [answer |-> "not ok", body |-> ""],
   [answer |-> "ok", body |-> "expected"],
   [answer |-> "ok", body |-> "unexpected"]}

Resolved(text, host, body) ==
  [settled |-> "resolved", text |-> text, host |-> host, body |-> body,
   isError |-> FALSE]
Rejected(text, isError) ==
  [settled |-> "rejected", text |-> text, host |-> "", body |-> "",
   isError |-> isError]

\* the loop over formValues: every value is the data token or a string
FormIsValid(formValues) ==
  \A i \in 1..Len(formValues) : formValues[i] \in {"data", "string"}

\* FileHost.upload: the requests handed to fetch and how the promise settles
upload(host, net) ==
  IF ~FormIsValid(host.class.formValues)
  THEN [requests |-> <<>>, promise |-> Rejected("form value isn't valid", TRUE)]
  ELSE IF ~host.dryRun
  THEN [requests |-> <<host.class.name>>,
        promise |->
          IF net.answer = "rejects" THEN Rejected("fetch failed", TRUE)
          ELSE IF net.answer = "not ok" THEN Rejected("response", FALSE)
          ELSE IF net.body = "unexpected" /\ host.class.name \in FixupThrows
          THEN Rejected("responseFixup threw", TRUE)
          ELSE Resolved("url", host.class.name, net.body)]
  ELSE [requests |-> <<>>, promise |-> Resolved("dry run", "", "")]

\* err(error): the stream written and the line, the exit value returned.  A
\* value that is no Error is taken for the exit value; the response object is
\* truthy, so console.error is the printer, and format is undefined.
err(error) ==
  [exitValue |-> IF error.isError THEN <<1>> ELSE <<error.text>>,
   stream |-> "stderr",
   line |-> IF error.isError THEN error.text ELSE "undefined"]

\* the values -s is given in the runs of main
ServiceFlags ==
  {Undefined, Str(<<"default">>), Str(<<"catbox">>), Str(<<"nosuch">>),
   Str(<<"uploadpie", ",", "catbox", ",">>)}

\* a positional: whether fs.openAsBlob opens it, and the size of the blob
MainFiles == [readable : BOOLEAN, size : {MiB(3), Inc(MiB(200))}]

FileLists == UNION {[1..k -> MainFiles] : k \in 0..MaxFiles}

\* lines 488-505: parse the arguments; -h, a parse error and an empty file
\* list return before the loop
MainStart ==
  /\ pc = "idle"
  /\ \E parseThrows \in BOOLEAN, help \in BOOLEAN, dryRun \in BOOLEAN,
        sn \in ServiceFlags, fs \in FileLists :
       IF parseThrows
       THEN /\ pc' = "exited"
            /\ ret' = 1
            /\ stderr' = Append(stderr, "parseArgs error")
            /\ UNCHANGED <<flags, files>>
       ELSE /\ flags' = [help |-> help, dryRun |-> dryRun, service |-> sn]
            /\ files' = fs
            /\ IF help
               THEN pc' = "exited" /\ ret' = 0
                    /\ stderr' = Append(stderr, "usage")
               ELSE IF Len(fs) = 0
               THEN pc' = "exited" /\ ret' = 1
                    /\ stderr' = Append(stderr, "no input file")
               ELSE pc' = "loop" /\ ret' = 0 /\ UNCHANGED stderr
  /\ UNCHANGED <<regVars, svcVars, humanVars, idx, stdout, fetched, outcomes>>

\* the catch leaving ret as it was
RetAfterCatchKept(r) == r

\* ret = 1 in the catch of the loop
RetAfterCatch(r) == 1

\* the loop goes on to the next file after the catch
PcAfterCatch(p) == p

\* the body of the loop for files[idx + 1], and its catch
MainFile ==
  /\ pc = "loop"
  /\ idx < Len(files)
  /\ LET file == files[idx + 1]
         caught(error, how) ==
           /\ stderr' = Append(stderr, err(error).line)
           /\ ret' = RetAfterCatch(ret)
           /\ pc' = PcAfterCatch(pc)
           /\ outcomes' = Append(outcomes, how)
           /\ UNCHANGED stdout
     IN /\ idx' = idx + 1
        /\ \/ /\ ~file.readable
              /\ caught(Rejected("unable to open as Blob", TRUE), "unreadable")
              /\ UNCHANGED <<fetched, derivedClass>>
           \/ /\ file.readable
              /\ derivedClass' =
                   RegistryAfterService(derivedClass, flags.service, file.size)
              /\ \E r \in service(derivedClass, flags.service, "f", file.size) :
                   IF r.kind # "returned"
                   THEN /\ caught(Rejected(r.kind, TRUE), "service threw")
                        /\ UNCHANGED fetched
                   ELSE \E net \in Network :
                          LET host == Construct(r.constructor, <<>>)
                              u == upload(host, net)
                          IN /\ fetched' = fetched \o u.requests
                             /\ IF u.promise.settled = "rejected"
                                THEN caught(u.promise, "upload threw")
                                ELSE /\ stdout' = Append(stdout,
                                          [file |-> idx + 1,
                                           text |-> u.promise.text,
                                           host |-> u.promise.host])
                                     /\ outcomes' = Append(outcomes, "uploaded")
                                     /\ UNCHANGED <<ret, stderr, pc>>
  /\ UNCHANGED <<registered, svcVars, humanVars, flags, files>>

\* return ret
MainReturn ==
  /\ pc = "loop"
  /\ idx = Len(files)
  /\ pc' = "returned"
  /\ UNCHANGED <<regVars, svcVars, humanVars, flags, files, idx, ret, stdout,
                 stderr, fetched, outcomes>>

Init == Loaded /\ Idle
Next == MainStart \/ MainFile \/ MainReturn
Spec == Init /\ [][Next]_vars

\* C2: with the dry-run flag set nothing is handed to fetch, and every file
\* that reaches upload prints "dry run".
C2_DryRunNeverFetches ==
  flags.dryRun =>
    /\ fetched = <<>>
    /\ \A i \in 1..Len(stdout) : stdout[i].text = "dry run"

\* the files whose iteration ended without a throw, in order
RECURSIVE UploadedFiles(_, _)
UploadedFiles(o, i) ==
  IF i > Len(o) THEN <<>>
  ELSE (IF o[i] = "uploaded" THEN <<i>> ELSE <<>>) \o UploadedFiles(o, i + 1)

\* C7: in the loop of main every file is taken in order whatever happened to
\* the files before it; the status is 0 exactly when no file failed; the
\* result of every file that succeeded is printed.
C7_FailuresIsolated ==
  pc \in {"loop", "returned"} =>
    /\ Len(outcomes) = idx
    /\ pc = "returned" => idx = Len(files)
    /\ ret \in {0, 1}
    /\ ret = 0 <=> \A i \in 1..idx : outcomes[i] = "uploaded"
    /\ [i \in 1..Len(stdout) |-> stdout[i].file] = UploadedFiles(outcomes, 1)

C7_Witness ==
  /\ pc = "returned"
  /\ Len(files) = 2
  /\ outcomes = <<"upload threw", "uploaded">>
  /\ stderr = <<"undefined">>
  /\ Len(stdout) = 1 /\ stdout[1].file = 2 /\ stdout[1].text = "url"
  /\ ret = 1

\* C11: once the module is loaded the registry is read-only: whatever calls of
\* FileHost.service and upload a run makes, the registry holds the names it
\* held after loading, each with the same maxFileSize, default and constructor.
C11_RegistryReadOnly ==
  /\ {derivedClass[i][1] : i \in 1..Len(derivedClass)}
       = {StartupRegistry[i][1] : i \in 1..Len(StartupRegistry)}
  /\ \A i \in 1..Len(derivedClass) :
       /\ MapHas(StartupRegistry, derivedClass[i][1])
       /\ derivedClass[i][2] = MapGet(StartupRegistry, derivedClass[i][1])

\* a run whose first file no requested host could take (both were deleted
\* from the working map) and whose second file was uploaded
C11_Witness ==
  /\ pc = "returned"
  /\ flags.service = Str(<<"uploadpie", ",", "catbox", ",">>)
  /\ outcomes = <<"service threw", "uploaded">>
  /\ Len(fetched) = 1
  /\ derivedClass = StartupRegistry

====
